---- MODULE Spec2Model ----
(***************************************************************************)
(* props-util: the code generated by #[derive(Properties)] (src/src/lib.rs) *)
(* modelled as a state machine.  A struct declaration (the schema) is      *)
(* derived once; the generated entry points `from`, `default`,             *)
(* `from_file` and `into_hash_map` are the operations.                     *)
(*                                                                         *)
(* A Rust String is a sequence of one-character strings, Option<T> is the  *)
(* empty sequence (None) or a one-element sequence (Some), a HashMap is a  *)
(* function on the set of its keys.                                        *)
(***************************************************************************)
EXTENDS Integers, Sequences, FiniteSets, TLC

\* ------------------------------------------------------------------ bounds
\* longest raw string handed to parse_vec / parse in the coercion runs
MaxRawLen == 4
\* most characters, over all its values, of a caller-supplied source mapping
MaxChars == 2

\* ------------------------------------------------------------ Rust strings
None == <<>>
Some(v) == <<v>>

\* the characters of the model: a digit, a letter, the separator, whitespace
Alphabet == {"1", "x", ",", " "}

RECURSIVE StringsOfLen(_)
StringsOfLen(n) ==
    IF n = 0 THEN {<<>>}
    ELSE {Append(s, c) : s \in StringsOfLen(n - 1), c \in Alphabet}

StringsUpTo(n) == UNION {StringsOfLen(k) : k \in 0..n}

Digits == <<"0", "1", "2", "3", "4", "5", "6", "7", "8", "9">>

is_digit(c) == \E d \in 1..10 : Digits[d] = c

digit_value(c) == (CHOOSE d \in 1..10 : Digits[d] = c) - 1

is_whitespace(c) == c = " "

\* str::trim: drop leading and trailing whitespace
RECURSIVE trim_start(_)
trim_start(s) ==
    IF s # <<>> /\ is_whitespace(Head(s)) THEN trim_start(Tail(s)) ELSE s

RECURSIVE trim_end(_)
trim_end(s) ==
    IF s # <<>> /\ is_whitespace(s[Len(s)])
    THEN trim_end(SubSeq(s, 1, Len(s) - 1))
    ELSE s

trim(s) == trim_end(trim_start(s))

\* str::split(','): n separators give n + 1 segments, the empty ones included
RECURSIVE split_from(_, _, _)
split_from(s, i, cur) ==
    IF i > Len(s) THEN <<cur>>
    ELSE IF s[i] = "," THEN <<cur>> \o split_from(s, i + 1, <<>>)
    ELSE split_from(s, i + 1, Append(cur, s[i]))

split(s) == split_from(s, 1, <<>>)

\* [String]::join(",")
RECURSIVE join(_)
join(ss) ==
    IF ss = <<>> THEN <<>>
    ELSE IF Len(ss) = 1 THEN ss[1]
    ELSE ss[1] \o <<",">> \o join(Tail(ss))

\* ------------------------------------------------- FromStr and ToString
U8Max == 2^8 - 1

Ok(v) == [ok |-> TRUE, v |-> v]
Err(e) == [ok |-> FALSE, e |-> e]

RECURSIVE digits_value(_, _)
digits_value(s, acc) ==
    IF s = <<>> THEN acc
    ELSE digits_value(Tail(s), acc * 10 + digit_value(Head(s)))

\* <u8 as FromStr>::from_str: an optional '+', then one or more decimal
\* digits and nothing else; a value above u8::MAX is an error
u8_from_str(s) ==
    LET body == IF s # <<>> /\ Head(s) = "+" THEN Tail(s) ELSE s
    IN IF body = <<>> \/ \E i \in 1..Len(body) : ~is_digit(body[i])
       THEN Err("ParseIntError")
       ELSE IF digits_value(body, 0) > U8Max THEN Err("ParseIntError")
       ELSE Ok(digits_value(body, 0))

RECURSIVE u8_to_string(_)
u8_to_string(n) ==
    IF n < 10 THEN <<Digits[n + 1]>>
    ELSE Append(u8_to_string(n \div 10), Digits[(n % 10) + 1])

\* the element types of the model: String and u8
ElemTypes == {"String", "u8"}

from_str(ty, s) == IF ty = "u8" THEN u8_from_str(s) ELSE Ok(s)

to_string(ty, v) == IF ty = "u8" THEN u8_to_string(v) ELSE v

\* -------------------------------------------------- generated: coercion
\* Self::parse::<T>
parse(ty, string) ==
    LET r == from_str(ty, string)
    IN IF r.ok THEN r ELSE Err("Error Parsing with value")

\* variant: the empty segments are kept
filter_keep_all(ss) == ss

RECURSIVE filter_non_empty(_)
filter_non_empty(ss) ==
    IF ss = <<>> THEN <<>>
    ELSE IF Head(ss) = <<>> THEN filter_non_empty(Tail(ss))
    ELSE <<Head(ss)>> \o filter_non_empty(Tail(ss))

\* variant: segments that do not parse are skipped
RECURSIVE collect_skip_invalid(_, _)
collect_skip_invalid(ty, ss) ==
    IF ss = <<>> THEN Ok(<<>>)
    ELSE LET r == from_str(ty, Head(ss))
             rest == collect_skip_invalid(ty, Tail(ss))
         IN IF r.ok THEN Ok(<<r.v>> \o rest.v) ELSE rest

\* collect::<io::Result<Vec<T>>>: the values in order, or the first error
RECURSIVE collect(_, _)
collect(ty, ss) ==
    IF ss = <<>> THEN Ok(<<>>)
    ELSE LET r == from_str(ty, Head(ss))
         IN IF ~r.ok THEN Err("Error Parsing with value")
            ELSE LET rest == collect(ty, Tail(ss))
                 IN IF rest.ok THEN Ok(<<r.v>> \o rest.v) ELSE rest

\* Self::parse_vec::<T>
parse_vec(ty, string) ==
    LET segs == split(string)
        trimmed == [i \in 1..Len(segs) |-> trim(segs[i])]
    IN collect(ty, filter_non_empty(trimmed))

\* ------------------------------------------------------ the derive input
\* A field of the struct: its identifier, the parameters of its #[prop(...)]
\* attribute (key, default, and any other parameter written there, here
\* `env`), and its type: Option<..> or not, Vec<..> or not, element type.
\* key = None stands for a field without the parameter or without the
\* attribute; an explicit key equal to the field's name resolves like it.
FieldNames == <<"a", "b">>

KeyLits == {"a", "b", "k"}

\* the default literal written on a field of a type: a number for a scalar,
\* two segments for a Vec
DefaultLit(ty) == IF ty.vec THEN <<"1", ",", "x">> ELSE <<"1">>

EnvNames == {"E"}

Types == [opt : BOOLEAN, vec : BOOLEAN, elem : ElemTypes]

Attrs(name, ty, envs) ==
    [key : {None} \cup {Some(k) : k \in KeyLits \ {name}},
     default : {None, Some(DefaultLit(ty))},
     env : {None} \cup {Some(e) : e \in envs}]

Fields(name, envs) ==
    UNION {{[name |-> name, attr |-> a, ty |-> t] : a \in Attrs(name, t, envs)} : t \in Types}

\* every struct with the fields FieldNames, in that order
RECURSIVE StructsUpTo(_, _)
StructsUpTo(n, envs) ==
    IF n = 0 THEN {<<>>}
    ELSE {Append(s, f) : s \in StructsUpTo(n - 1, envs), f \in Fields(FieldNames[n], envs)}

Structs(envs) == StructsUpTo(Len(FieldNames), envs)

\* parse_key_default: (key, default) of a field, or a syn::Error for a
\* parameter other than `key` and `default`
parse_key_default(field) ==
    IF field.attr.env # None THEN Err("unrecognized parameter in #[prop] attribute")
    ELSE Ok([key |-> IF field.attr.key # None THEN field.attr.key[1] ELSE field.name,
             default |-> field.attr.default])

key_of(field) == parse_key_default(field).v.key

default_of(field) == parse_key_default(field).v.default

\* generate_prop_fns: the impl is generated only if every field's attribute
\* parses; otherwise the derive is a compile error and there is no impl
generate_prop_fns(struct) ==
    IF \A i \in 1..Len(struct) : parse_key_default(struct[i]).ok
    THEN Ok("impl")
    ELSE Err("Expecting key and default values")

\* ------------------------------------------------ generated: resolution
\* variant: a default, when there is one, is used before the source mapping
val_token_stream_default_first(field, propmap) ==
    LET key == key_of(field)
        default == default_of(field)
    IN IF default # None THEN Some(default[1])
       ELSE IF key \in DOMAIN propmap THEN Some(propmap[key]) ELSE None

\* variant: a key stored with the empty string counts as not present
val_token_stream_empty_as_absent(field, propmap) ==
    LET key == key_of(field)
        default == default_of(field)
        present == key \in DOMAIN propmap /\ propmap[key] # <<>>
    IN IF default # None
       THEN Some(IF present THEN propmap[key] ELSE default[1])
       ELSE IF present THEN Some(propmap[key]) ELSE None

\* val_token_stream: the raw value a field is initialised from
val_token_stream(field, propmap) ==
    LET key == key_of(field)
        default == default_of(field)
    IN IF default # None
       THEN Some(IF key \in DOMAIN propmap THEN propmap[key] ELSE default[1])
       ELSE IF key \in DOMAIN propmap THEN Some(propmap[key]) ELSE None

MissingError(key) == [kind |-> "missing", key |-> key, val |-> None]

ParseError(key, val) == [kind |-> "parse", key |-> key, val |-> Some(val)]

\* variant: a required field without a raw value is coerced from ""
generate_field_init_quote_missing_as_empty(field, raw) ==
    LET key == key_of(field)
        val == IF raw = None THEN <<>> ELSE raw[1]
        coerced == IF field.ty.vec THEN parse_vec(field.ty.elem, val)
                   ELSE parse(field.ty.elem, val)
    IN IF raw = None /\ field.ty.opt THEN Ok(None)
       ELSE IF ~coerced.ok THEN Err(ParseError(key, val))
       ELSE IF field.ty.opt THEN Ok(Some(coerced.v)) ELSE Ok(coerced.v)

\* variant: an optional field without a raw value is an error too
generate_field_init_quote_option_required(field, raw) ==
    LET key == key_of(field)
        coerced == IF field.ty.vec THEN parse_vec(field.ty.elem, raw[1])
                   ELSE parse(field.ty.elem, raw[1])
    IN IF raw = None THEN Err(MissingError(key))
       ELSE IF ~coerced.ok THEN Err(ParseError(key, raw[1]))
       ELSE IF field.ty.opt THEN Ok(Some(coerced.v)) ELSE Ok(coerced.v)

\* generate_field_init_quote: the initialiser of one field, applied to the
\* raw value; Ok(field value) or the io::Error the function returns with
generate_field_init_quote(field, raw) ==
    LET key == key_of(field)
        coerced == IF field.ty.vec THEN parse_vec(field.ty.elem, raw[1])
                   ELSE parse(field.ty.elem, raw[1])
    IN IF raw = None
       THEN IF field.ty.opt THEN Ok(None) ELSE Err(MissingError(key))
       ELSE IF ~coerced.ok THEN Err(ParseError(key, raw[1]))
       ELSE IF field.ty.opt THEN Ok(Some(coerced.v)) ELSE Ok(coerced.v)

init_field(field, propmap) ==
    generate_field_init_quote(field, val_token_stream(field, propmap))

\* variant: every initialiser runs and the last error is the one returned
RECURSIVE init_from_all_fields(_, _, _, _)
init_from_all_fields(struct, propmap, i, rec) ==
    IF i > Len(struct) THEN [ok |-> TRUE, v |-> rec, n |-> i - 1]
    ELSE LET r == generate_field_init_quote(struct[i], val_token_stream(struct[i], propmap))
             rest == init_from_all_fields(struct, propmap, i + 1,
                                          IF r.ok THEN Append(rec, r.v) ELSE rec)
         IN IF r.ok \/ ~rest.ok THEN rest
            ELSE [ok |-> FALSE, e |-> r.e, n |-> Len(struct)]

\* Ok(Self { #( #init_arr ),* }): the initialisers run in declaration order
\* and the first error returns from the function.  `n` counts the
\* initialisers that ran.
RECURSIVE init_from(_, _, _, _)
init_from(struct, propmap, i, rec) ==
    IF i > Len(struct) THEN [ok |-> TRUE, v |-> rec, n |-> i - 1]
    ELSE LET r == init_field(struct[i], propmap)
         IN IF r.ok THEN init_from(struct, propmap, i + 1, Append(rec, r.v))
            ELSE [ok |-> FALSE, e |-> r.e, n |-> i]

init_arr(struct, propmap) == init_from(struct, propmap, 1, <<>>)

\* ---------------------------------------------------- generated: export
Put(hm, k, v) == [x \in DOMAIN hm \cup {k} |-> IF x = k THEN v ELSE hm[x]]

EmptyMap == [x \in {} |-> <<>>]

serialize(field, v) ==
    IF field.ty.vec
    THEN join([i \in 1..Len(v) |-> to_string(field.ty.elem, v[i])])
    ELSE to_string(field.ty.elem, v)

\* variant: an absent option is written as the empty string
generate_field_hm_token_stream_absent_as_empty(field, value, hm) ==
    LET key == key_of(field)
        ser == IF field.ty.opt
               THEN IF value # None THEN serialize(field, value[1]) ELSE <<>>
               ELSE serialize(field, value)
    IN Put(Put(hm, field.name, ser), key, ser)

\* variant: only the entry under the declared key is written
generate_field_hm_token_stream_key_only(field, value, hm) ==
    LET key == key_of(field)
    IN IF field.ty.opt
       THEN IF value # None THEN Put(hm, key, serialize(field, value[1])) ELSE hm
       ELSE Put(hm, key, serialize(field, value))

\* variant: only the entry under the field's name is written
generate_field_hm_token_stream_name_only(field, value, hm) ==
    IF field.ty.opt
    THEN IF value # None THEN Put(hm, field.name, serialize(field, value[1])) ELSE hm
    ELSE Put(hm, field.name, serialize(field, value))

\* variant: an insert leaves an entry that is already there as it is
generate_field_hm_token_stream_keep_first(field, value, hm) ==
    LET key == key_of(field)
        ser == serialize(field, IF field.ty.opt THEN value[1] ELSE value)
        named == IF field.name \in DOMAIN hm THEN hm ELSE Put(hm, field.name, ser)
    IN IF field.ty.opt /\ value = None THEN hm
       ELSE IF key \in DOMAIN named THEN named ELSE Put(named, key, ser)

\* generate_field_hm_token_stream: the two inserts of one field
generate_field_hm_token_stream(field, value, hm) ==
    LET key == key_of(field)
    IN IF field.ty.opt
       THEN IF value # None
            THEN Put(Put(hm, field.name, serialize(field, value[1])), key, serialize(field, value[1]))
            ELSE hm
       ELSE Put(Put(hm, field.name, serialize(field, value)), key, serialize(field, value))

\* into_hash_map: #( #ht_arr )* in declaration order into one HashMap
RECURSIVE hm_from(_, _, _, _)
hm_from(struct, rec, i, hm) ==
    IF i > Len(struct) THEN hm
    ELSE hm_from(struct, rec, i + 1, generate_field_hm_token_stream(struct[i], rec[i], hm))

into_hash_map(struct, rec) == hm_from(struct, rec, 1, EmptyMap)

\* ------------------------------------------------- generated: from_file
\* the longest properties file, in characters
MaxFileLen == 4

\* the characters of a properties file
FileAlphabet == {"a", "=", "#", "!", " ", "\n"}

RECURSIVE ContentsOfLen(_)
ContentsOfLen(n) ==
    IF n = 0 THEN {<<>>}
    ELSE {Append(s, c) : s \in ContentsOfLen(n - 1), c \in FileAlphabet}

ContentsUpTo(n) == UNION {ContentsOfLen(k) : k \in 0..n}

\* the causes File::open and read_to_string fail with
OpenErrorKinds == {"NotFound", "PermissionDenied"}

ReadErrorKinds == {"InvalidData"}

\* what the file system answers for a path: open fails, or open succeeds
\* and the read fails, or the read yields the content
Files(contents) ==
    {[open |-> Err(k), read |-> Err(k)] : k \in OpenErrorKinds}
    \cup {[open |-> Ok("File"), read |-> Err(k)] : k \in ReadErrorKinds}
    \cup {[open |-> Ok("File"), read |-> Ok(c)] : c \in contents}

Paths == {<<"p">>}

\* str::lines: the pieces between line feeds; a final line feed ends the
\* last line and starts no further one
RECURSIVE lines_from(_, _, _)
lines_from(content, i, cur) ==
    IF i > Len(content) THEN IF cur = <<>> THEN <<>> ELSE <<cur>>
    ELSE IF content[i] = "\n" THEN <<cur>> \o lines_from(content, i + 1, <<>>)
    ELSE lines_from(content, i + 1, Append(cur, content[i]))

lines(content) == lines_from(content, 1, <<>>)

starts_with(s, c) == Len(s) > 0 /\ s[1] = c

\* variant: the line is split at its last '='
rsplit_once(s) ==
    LET at == {i \in 1..Len(s) : s[i] = "="}
    IN IF at = {} THEN None
       ELSE LET i == CHOOSE j \in at : \A k \in at : k <= j
            IN Some([key |-> SubSeq(s, 1, i - 1), value |-> SubSeq(s, i + 1, Len(s))])

\* str::split_once('='): the parts before and after the first '='
split_once(s) ==
    LET at == {i \in 1..Len(s) : s[i] = "="}
    IN IF at = {} THEN None
       ELSE LET i == CHOOSE j \in at : \A k \in at : j <= k
            IN Some([key |-> SubSeq(s, 1, i - 1), value |-> SubSeq(s, i + 1, Len(s))])

\* a key read from the file, as the string the map is indexed by: the
\* struct's names and key literals are such strings
RECURSIVE key_string(_)
key_string(chars) == IF chars = <<>> THEN "" ELSE Head(chars) \o key_string(Tail(chars))

OpenError(cause, path) ==
    [kind |-> "io", cause |-> cause, msg |-> "Error opening file", path |-> path]

ReadError(cause, path) ==
    [kind |-> "io", cause |-> cause, msg |-> "Error Reading File :", path |-> path]

MalformedLine(line_num, path, line) ==
    [kind |-> "malformed", line_num |-> line_num, path |-> path, line |-> line]

\* variant: the open error is rebuilt without the cause's kind
open_kind_dropped(path, file) ==
    IF file.open.ok THEN file.open ELSE Err(OpenError("Other", path))

\* File::open(path).map_err(..)
open(path, file) ==
    IF file.open.ok THEN file.open ELSE Err(OpenError(file.open.e, path))

\* file.read_to_string(&mut content).map_err(..)
read_to_string(path, file) ==
    IF file.read.ok THEN file.read ELSE Err(ReadError(file.read.e, path))

\* variant: the error cites the position among the lines that are neither
\* blank nor comments
RECURSIVE insert_lines_counting_data_lines(_, _, _, _)
insert_lines_counting_data_lines(ls, line_num, path, propmap) ==
    IF ls = <<>> THEN Ok(propmap)
    ELSE LET line == trim(Head(ls))
         IN IF line = <<>> \/ starts_with(line, "#") \/ starts_with(line, "!")
            THEN insert_lines_counting_data_lines(Tail(ls), line_num, path, propmap)
            ELSE LET kv == split_once(line)
                 IN IF kv = None THEN Err(MalformedLine(line_num + 1, path, line))
                    ELSE insert_lines_counting_data_lines(Tail(ls), line_num + 1, path,
                             Put(propmap, key_string(trim(kv[1].key)), trim(kv[1].value)))

\* variant: a line without '=' is passed over
RECURSIVE insert_lines_skip_malformed(_, _, _, _)
insert_lines_skip_malformed(ls, line_num, path, propmap) ==
    IF ls = <<>> THEN Ok(propmap)
    ELSE LET line == trim(Head(ls))
             kv == split_once(line)
         IN IF line = <<>> \/ starts_with(line, "#") \/ starts_with(line, "!") \/ kv = None
            THEN insert_lines_skip_malformed(Tail(ls), line_num + 1, path, propmap)
            ELSE insert_lines_skip_malformed(Tail(ls), line_num + 1, path,
                     Put(propmap, key_string(trim(kv[1].key)), trim(kv[1].value)))

\* the loop over content.lines().enumerate(): `ls` are the lines left,
\* `line_num` the 0-based index of the first of them
RECURSIVE insert_lines(_, _, _, _)
insert_lines(ls, line_num, path, propmap) ==
    IF ls = <<>> THEN Ok(propmap)
    ELSE LET line == trim(Head(ls))
         IN IF line = <<>> \/ starts_with(line, "#") \/ starts_with(line, "!")
            THEN insert_lines(Tail(ls), line_num + 1, path, propmap)
            ELSE LET kv == split_once(line)
                 IN IF kv = None THEN Err(MalformedLine(line_num + 1, path, line))
                    ELSE insert_lines(Tail(ls), line_num + 1, path,
                             Put(propmap, key_string(trim(kv[1].key)), trim(kv[1].value)))

\* the body of from_file up to the construction of Self: the propmap, or
\* the error the function returns with
read_propmap(path, file) ==
    LET opened == open(path, file)
        content == read_to_string(path, file)
    IN IF ~opened.ok THEN opened
       ELSE IF ~content.ok THEN content
       ELSE insert_lines(lines(content.v), 0, path, EmptyMap)

\* variant: the fields are initialised from the well-formed lines first and
\* a line without '=' is reported only when every field resolves
load_fields_first(struct, path, file) ==
    LET pm == read_propmap(path, file)
        lenient == insert_lines_skip_malformed(lines(file.read.v), 0, path, EmptyMap)
        r == init_arr(struct, lenient.v)
    IN IF pm.ok THEN init_arr(struct, pm.v)
       ELSE IF pm.e.kind = "malformed" /\ ~r.ok THEN r
       ELSE [ok |-> FALSE, e |-> pm.e, n |-> 0]

\* from_file: the io::Result it returns; no initialiser runs when the
\* propmap could not be built
load(struct, path, file) ==
    LET pm == read_propmap(path, file)
    IN IF pm.ok THEN init_arr(struct, pm.v)
       ELSE [ok |-> FALSE, e |-> pm.e, n |-> 0]

\* ---------------------------------------------------------------- state
VARIABLES
    pc,         \* "declared", then "rejected" (the derive failed) or "idle", then "done"
    schema,     \* the struct the next or last entry point belongs to (Self)
    target,     \* the struct a record is converted into with Target::from(record)
    env,        \* the process environment: variable name -> value
    entry,      \* the entry point of the last call
    propmap,    \* the propmap of the last call
    other,      \* the argument of the last from(record): its struct and fields
    result,     \* the io::Result of the last call
    coerce_in,  \* the element type and string handed to parse_vec / parse
    coerce_out, \* what parse_vec / parse returned
    path,       \* the path handed to from_file
    file        \* what the file system holds at that path

vars == <<pc, schema, target, env, entry, propmap, other, result, coerce_in, coerce_out,
          path, file>>

\* the keys a struct looks up
declared_keys(struct) == {key_of(struct[i]) : i \in 1..Len(struct)}

\* mappings over `keys` with at most `budget` characters of values in all
RECURSIVE MapsOver(_, _)
MapsOver(keys, budget) ==
    IF keys = {} THEN {EmptyMap}
    ELSE LET k == CHOOSE x \in keys : TRUE
         IN MapsOver(keys \ {k}, budget)
            \cup UNION {{Put(m, k, v) : m \in MapsOver(keys \ {k}, budget - Len(v))} :
                        v \in StringsUpTo(budget)}

\* the caller-supplied mappings: entries for the keys the struct declares
SourceMaps(struct) == MapsOver(declared_keys(struct), MaxChars)

Envs == {EmptyMap} \cup {Put(EmptyMap, e, <<"x">>) : e \in EnvNames}

InitWith(structs, envs) ==
    /\ pc = "declared"
    /\ schema \in structs
    /\ env \in envs
    /\ entry = "none"
    /\ propmap = EmptyMap
    /\ other = None
    /\ result = None
    /\ coerce_in = None
    /\ coerce_out = None
    /\ path = <<>>
    /\ file = None

\* one struct, declared with `key` and `default` parameters only; its
\* records are converted into its own type
Init ==
    /\ InitWith(Structs({}), {EmptyMap})
    /\ target = schema

\* #[derive(Properties)] on the declared structs (parse_prop_derive)
parse_prop_derive ==
    /\ pc = "declared"
    /\ pc' = IF generate_prop_fns(schema).ok /\ generate_prop_fns(target).ok
             THEN "idle" ELSE "rejected"
    /\ UNCHANGED <<path, file, schema, target, env, entry, propmap, other, result, coerce_in, coerce_out>>

\* Self::from(map) with a HashMap<String, String>
from_map ==
    /\ pc = "idle"
    /\ \E m \in SourceMaps(schema) :
        /\ propmap' = m
        /\ result' = Some(init_arr(schema, m))
    /\ entry' = "from"
    /\ pc' = "done"
    /\ UNCHANGED <<path, file, schema, target, env, other, coerce_in, coerce_out>>

\* Self::default()
default ==
    /\ pc = "idle"
    /\ propmap' = EmptyMap
    /\ result' = Some(init_arr(schema, EmptyMap))
    /\ entry' = "default"
    /\ pc' = "done"
    /\ UNCHANGED <<path, file, schema, target, env, other, coerce_in, coerce_out>>

\* Target::from(record): propmap = record.into() = record.into_hash_map()
from_struct ==
    /\ pc = "done"
    /\ result[1].ok
    /\ other' = Some([struct |-> schema, rec |-> result[1].v])
    /\ propmap' = into_hash_map(schema, result[1].v)
    /\ result' = Some(init_arr(target, propmap'))
    /\ schema' = target
    /\ entry' = "from_struct"
    /\ UNCHANGED <<path, file, pc, target, env, coerce_in, coerce_out>>

Next == parse_prop_derive \/ from_map \/ default \/ from_struct

Spec == Init /\ [][Next]_vars

\* structs of String fields that may also carry the `env` parameter, in an
\* environment that sets the variable or not
EnvStructs ==
    {s \in Structs(EnvNames) :
        \A i \in 1..Len(s) : s[i].ty = [opt |-> FALSE, vec |-> FALSE, elem |-> "String"]}

InitEnv ==
    /\ InitWith(EnvStructs, Envs)
    /\ target = schema

SpecEnv == InitEnv /\ [][Next]_vars

\* B::from(a): a struct A of String-based fields without defaults and a
\* one-field struct B with a default
ConvSources ==
    {s \in Structs({}) :
        \A i \in 1..Len(s) : s[i].attr.default = None /\ s[i].ty.elem = "String"}

ConvTargets == {s \in StructsUpTo(1, {}) : s[1].attr.default # None}

InitConv ==
    /\ InitWith(ConvSources, {EmptyMap})
    /\ target \in ConvTargets

SpecConv == InitConv /\ [][Next]_vars

\* ------------------------------------------------------- loading a file
\* one-field structs that look their field up under its own name
FileStructs == {s \in StructsUpTo(1, {}) : s[1].attr.key = None}

InitFile ==
    /\ pc = "declared"
    /\ schema \in FileStructs
    /\ target = schema
    /\ env = EmptyMap
    /\ entry = "none"
    /\ propmap = EmptyMap
    /\ other = None
    /\ result = None
    /\ coerce_in = None
    /\ coerce_out = None
    /\ path \in Paths
    /\ file \in {Some(f) : f \in Files(ContentsUpTo(MaxFileLen))}

\* Self::from_file(path)
from_file ==
    /\ pc = "idle"
    /\ file # None
    /\ LET pm == read_propmap(path, file[1])
       IN propmap' = IF pm.ok THEN pm.v ELSE EmptyMap
    /\ result' = Some(load(schema, path, file[1]))
    /\ entry' = "from_file"
    /\ pc' = "done"
    /\ UNCHANGED <<path, file, schema, target, env, other, coerce_in, coerce_out>>

NextFile == parse_prop_derive \/ from_file

SpecFile == InitFile /\ [][NextFile]_vars

\* ---------------------------------------------- the coercion layer alone
InitCoerce ==
    /\ pc = "coerce"
    /\ coerce_in \in {Some([ty |-> t, string |-> s]) : t \in ElemTypes, s \in StringsUpTo(MaxRawLen)}
    /\ coerce_out = None
    /\ schema = <<>>
    /\ target = <<>>
    /\ env = EmptyMap
    /\ entry = "none"
    /\ propmap = EmptyMap
    /\ other = None
    /\ result = None
    /\ path = <<>>
    /\ file = None

call_parse_vec ==
    /\ pc = "coerce"
    /\ coerce_out' = Some(parse_vec(coerce_in[1].ty, coerce_in[1].string))
    /\ pc' = "parse_vec"
    /\ UNCHANGED <<path, file, schema, target, env, entry, propmap, other, result, coerce_in>>

call_parse ==
    /\ pc = "coerce"
    /\ coerce_out' = Some(parse(coerce_in[1].ty, coerce_in[1].string))
    /\ pc' = "parse"
    /\ UNCHANGED <<path, file, schema, target, env, entry, propmap, other, result, coerce_in>>

NextCoerce == call_parse_vec \/ call_parse

SpecCoerce == InitCoerce /\ [][NextCoerce]_vars

\* ----------------------------------------------------------- properties
Called == pc = "done"

Res == result[1]

FieldsOf(struct) == 1..Len(struct)

\* the declared key of a field: its `key` parameter, else its own name
DeclaredKey(f) == IF f.attr.key = None THEN f.name ELSE f.attr.key[1]

Absent(struct, rec, i) == struct[i].ty.opt /\ rec[i] = None

\* the serialized value of a field that is not an absent option
Serialized(struct, rec, i) ==
    serialize(struct[i], IF struct[i].ty.opt THEN rec[i][1] ELSE rec[i])

\* what the last call did with field i is what `want` says: its value in
\* the record, or the error returned when field i is the one that failed
Agrees(i, want) ==
    /\ Res.ok => want.ok /\ Res.v[i] = want.v
    /\ (~Res.ok /\ Res.n = i) => ~want.ok /\ Res.e = want.e
    /\ (~Res.ok /\ i < Res.n) => want.ok

\* every field declared before field i resolves without error
EarlierFieldsResolve(i) == \A j \in 1..(i - 1) : init_field(schema[j], propmap).ok

\* the comma-separated segments of a string, by position: a segment starts
\* at the beginning or right after a comma and runs up to the next comma
SegStarts(s) == {i \in 1..(Len(s) + 1) : i = 1 \/ s[i - 1] = ","}

SegEnd(s, i) ==
    CHOOSE j \in (i - 1)..Len(s) :
        /\ \A k \in i..j : s[k] # ","
        /\ j = Len(s) \/ s[j + 1] = ","

\* a segment without its leading and trailing whitespace
TrimmedSeg(s, i) ==
    LET j == SegEnd(s, i)
        ink == {k \in i..j : ~is_whitespace(s[k])}
    IN IF ink = {} THEN <<>>
       ELSE SubSeq(s, CHOOSE k \in ink : \A l \in ink : k <= l,
                      CHOOSE k \in ink : \A l \in ink : l <= k)

\* the segments that are non-empty after trimming, left to right
KeptSegments(s) ==
    LET kept == {i \in SegStarts(s) : TrimmedSeg(s, i) # <<>>}
        nth(k) == CHOOSE i \in kept : Cardinality({l \in kept : l < i}) = k - 1
    IN [k \in 1..Cardinality(kept) |-> TrimmedSeg(s, nth(k))]

\* the raw string does not coerce to the field's type
Uncoercible(f, raw) ==
    IF f.ty.vec
    THEN \E k \in 1..Len(KeptSegments(raw)) : ~from_str(f.ty.elem, KeptSegments(raw)[k]).ok
    ELSE ~from_str(f.ty.elem, raw).ok

\* C1: a field with a default is initialised from the source mapping's value
\* for its declared key whenever the key is present, and from the default
\* literal only when the key is not present.
C1_SourceValueBeforeDefault ==
    Called =>
        \A i \in FieldsOf(schema) :
            LET f == schema[i]
                key == DeclaredKey(f)
            IN f.attr.default # None =>
                Agrees(i, generate_field_init_quote(f,
                    Some(IF key \in DOMAIN propmap THEN propmap[key] ELSE f.attr.default[1])))

\* a record built from a mapping that overrides one default and lacks the
\* key of another field with a default
C1_Witness ==
    /\ Called /\ entry = "from" /\ Res.ok
    /\ \E i, j \in FieldsOf(schema) :
        /\ schema[i].attr.default # None /\ schema[j].attr.default # None
        /\ DeclaredKey(schema[i]) \in DOMAIN propmap
        /\ propmap[DeclaredKey(schema[i])] # schema[i].attr.default[1]
        /\ DeclaredKey(schema[j]) \notin DOMAIN propmap

\* C2: a field whose attribute names an environment variable that is set
\* resolves from the variable's value, whatever the source mapping and the
\* default are.
C2_EnvironmentOutranksSourceAndDefault ==
    pc \in {"rejected", "done"} =>
        \A i \in FieldsOf(schema) :
            (schema[i].attr.env # None /\ schema[i].attr.env[1] \in DOMAIN env) =>
                /\ Called
                /\ Agrees(i, generate_field_init_quote(schema[i], Some(env[schema[i].attr.env[1]])))

\* C3 as stated: a non-optional field without default whose key is not in
\* the source mapping makes the call return the missing-required error with
\* that field's key.
C3_MissingRequiredAlwaysReported ==
    Called =>
        \A i \in FieldsOf(schema) :
            LET f == schema[i]
            IN (~f.ty.opt /\ f.attr.default = None /\ DeclaredKey(f) \notin DOMAIN propmap) =>
                /\ ~Res.ok
                /\ Res.e = [kind |-> "missing", key |-> DeclaredKey(f), val |-> None]

\* C3 amended: ... provided every field declared before it resolves without
\* error; then the call returns the missing-required error with that
\* field's key, and no record.
C3_MissingRequiredReported ==
    Called =>
        \A i \in FieldsOf(schema) :
            LET f == schema[i]
            IN (/\ ~f.ty.opt /\ f.attr.default = None
                /\ DeclaredKey(f) \notin DOMAIN propmap
                /\ EarlierFieldsResolve(i)) =>
                /\ ~Res.ok
                /\ Res.n = i
                /\ Res.e = [kind |-> "missing", key |-> DeclaredKey(f), val |-> None]

\* the second field is required and missing, the first one resolved
C3_Witness ==
    /\ Called /\ entry = "from" /\ ~Res.ok
    /\ Res.n = 2 /\ Res.e.kind = "missing"
    /\ schema[2].ty.vec
    /\ propmap # EmptyMap

\* C4: an optional field without default whose key is not in the source
\* mapping resolves to None and is not the field the call fails on.
C4_OptionalAbsentIsNone ==
    Called =>
        \A i \in FieldsOf(schema) :
            LET f == schema[i]
            IN (f.ty.opt /\ f.attr.default = None /\ DeclaredKey(f) \notin DOMAIN propmap) =>
                /\ Res.ok => Res.v[i] = None
                /\ ~Res.ok => Res.n # i

\* a record with an absent optional sequence, built from a non-empty mapping
C4_Witness ==
    /\ Called /\ entry = "from" /\ Res.ok /\ propmap # EmptyMap
    /\ \E i \in FieldsOf(schema) :
        /\ schema[i].ty.opt /\ schema[i].ty.vec /\ schema[i].attr.default = None
        /\ DeclaredKey(schema[i]) \notin DOMAIN propmap
        /\ Res.v[i] = None

\* the raw string a field resolves from: the source value, else the default
ResolvedRaw(f) ==
    IF DeclaredKey(f) \in DOMAIN propmap THEN Some(propmap[DeclaredKey(f)])
    ELSE f.attr.default

\* C5 as stated: whenever the raw string of a field does not coerce to the
\* field's type, the call returns the parse failure with that field's key
\* and raw value.
C5_ParseFailureAlwaysReported ==
    Called =>
        \A i \in FieldsOf(schema) :
            LET f == schema[i]
            IN (ResolvedRaw(f) # None /\ Uncoercible(f, ResolvedRaw(f)[1])) =>
                /\ ~Res.ok
                /\ Res.e = [kind |-> "parse", key |-> DeclaredKey(f), val |-> ResolvedRaw(f)]

\* C5 amended: ... provided every field declared before it resolves without
\* error; then the call returns the parse failure with that field's key and
\* raw value, and no record.
C5_ParseFailureReported ==
    Called =>
        \A i \in FieldsOf(schema) :
            LET f == schema[i]
            IN (/\ ResolvedRaw(f) # None
                /\ Uncoercible(f, ResolvedRaw(f)[1])
                /\ EarlierFieldsResolve(i)) =>
                /\ ~Res.ok
                /\ Res.n = i
                /\ Res.e = [kind |-> "parse", key |-> DeclaredKey(f), val |-> ResolvedRaw(f)]

\* the second field is a sequence of integers with a segment that parses
\* and one that does not
C5_Witness ==
    /\ Called /\ ~Res.ok /\ Res.n = 2 /\ Res.e.kind = "parse"
    /\ schema[2].ty.vec /\ schema[2].ty.elem = "u8"
    /\ \E k, l \in 1..Len(KeptSegments(Res.e.val[1])) :
        /\ from_str("u8", KeptSegments(Res.e.val[1])[k]).ok
        /\ ~from_str("u8", KeptSegments(Res.e.val[1])[l]).ok

\* the fields whose initialiser fails on the propmap of the last call
FailingFields == {i \in FieldsOf(schema) : ~init_field(schema[i], propmap).ok}

\* C6: the call returns the error of the earliest failing field, runs no
\* initialiser after it, and returns a record only if no field fails, with
\* every field in it.
C6_FailFastInDeclarationOrder ==
    Called =>
        /\ FailingFields # {} =>
            LET first == CHOOSE i \in FailingFields : \A j \in FailingFields : i <= j
            IN /\ ~Res.ok
               /\ Res.e = init_field(schema[first], propmap).e
               /\ Res.n = first
        /\ Res.ok => FailingFields = {} /\ Len(Res.v) = Len(schema)

\* both fields fail, with different errors
C6_Witness ==
    /\ Called /\ Cardinality(FailingFields) = 2
    /\ init_field(schema[1], propmap).e # init_field(schema[2], propmap).e
    /\ init_field(schema[1], propmap).e.kind = "parse"

\* C7: parse_vec returns the coerced values of the segments that are
\* non-empty after trimming, in order and with duplicates; it fails only if
\* one of them does not coerce; a string without such a segment gives the
\* empty sequence.
C7_SequenceCoercion ==
    pc = "parse_vec" =>
        LET ty == coerce_in[1].ty
            segs == KeptSegments(coerce_in[1].string)
            out == coerce_out[1]
        IN /\ out.ok <=> \A k \in 1..Len(segs) : from_str(ty, segs[k]).ok
           /\ out.ok =>
                /\ Len(out.v) = Len(segs)
                /\ \A k \in 1..Len(segs) : out.v[k] = from_str(ty, segs[k]).v
           /\ Len(segs) = 0 => out.ok /\ out.v = <<>>

\* a string with an empty segment and a repeated value
C7_Witness ==
    /\ pc = "parse_vec" /\ coerce_out[1].ok
    /\ Cardinality(SegStarts(coerce_in[1].string)) = 3
    /\ Len(coerce_out[1].v) = 2
    /\ coerce_out[1].v[1] = coerce_out[1].v[2]

\* no field's declared key is the name or the declared key of another field
NoSharedKey(struct) ==
    \A i, j \in FieldsOf(struct) :
        i # j => DeclaredKey(struct[i]) \notin {struct[j].name, DeclaredKey(struct[j])}

\* C8 as stated: converting a record into its own type reproduces it.
C8_RoundTripAnyStruct ==
    (Called /\ entry = "from_struct" /\ other[1].struct = schema) =>
        Res.ok /\ Res.v = other[1].rec

\* C8 amended: ... for a struct in which no field's declared key is the
\* name or the declared key of another field.
C8_RoundTrip ==
    (Called /\ entry = "from_struct" /\ other[1].struct = schema /\ NoSharedKey(schema)) =>
        Res.ok /\ Res.v = other[1].rec

\* a record with an absent option and a sequence of two values, re-imported
C8_Witness ==
    /\ Called /\ entry = "from_struct" /\ other[1].struct = schema /\ NoSharedKey(schema)
    /\ \E i, j \in FieldsOf(schema) :
        /\ Absent(schema, other[1].rec, i)
        /\ schema[j].ty.vec /\ ~schema[j].ty.opt /\ Len(other[1].rec[j]) = 2
    /\ Res.ok

\* field i shares neither its name nor its declared key with another field
NoAliasShared(struct, i) ==
    \A j \in FieldsOf(struct) :
        i # j => {struct[i].name, DeclaredKey(struct[i])}
                    \cap {struct[j].name, DeclaredKey(struct[j])} = {}

\* the export has both entries of field i, or none if it is an absent option
ExportsField(struct, rec, i, hm) ==
    LET name == struct[i].name
        key == DeclaredKey(struct[i])
    IN IF Absent(struct, rec, i)
       THEN name \notin DOMAIN hm /\ key \notin DOMAIN hm
       ELSE /\ name \in DOMAIN hm /\ hm[name] = Serialized(struct, rec, i)
            /\ key \in DOMAIN hm /\ hm[key] = Serialized(struct, rec, i)

\* C9 as stated: the export has, for every field that is not an absent
\* option, its serialized value under its name and under its declared key,
\* and no entry for a field that is an absent option.
C9_ExportEveryField ==
    entry = "from_struct" =>
        \A i \in FieldsOf(other[1].struct) :
            ExportsField(other[1].struct, other[1].rec, i, propmap)

\* C9 amended: ... for every field that shares neither its name nor its
\* declared key with another field of the struct.
C9_ExportField ==
    entry = "from_struct" =>
        \A i \in FieldsOf(other[1].struct) :
            NoAliasShared(other[1].struct, i) =>
                ExportsField(other[1].struct, other[1].rec, i, propmap)

\* an export with a two-element sequence under a name and a different key,
\* and with an absent option left out
C9_Witness ==
    /\ entry = "from_struct"
    /\ \E i, j \in FieldsOf(other[1].struct) :
        /\ NoAliasShared(other[1].struct, i) /\ NoAliasShared(other[1].struct, j)
        /\ other[1].struct[i].name # DeclaredKey(other[1].struct[i])
        /\ other[1].struct[i].ty.vec /\ ~other[1].struct[i].ty.opt
        /\ Len(other[1].rec[i]) = 2
        /\ Absent(other[1].struct, other[1].rec, j)

\* field i of struct A is not absent and field j of the target looks up its
\* name or its declared key
Feeds(A, rec, i, j) ==
    /\ ~Absent(A, rec, i)
    /\ DeclaredKey(schema[j]) \in {A[i].name, DeclaredKey(A[i])}

\* C10 as stated: a field of B whose declared key is the name or the
\* declared key of a non-absent field of A is initialised from that field's
\* serialized value, not from B's default.
C10_ConvertedFromAnyMatchingField ==
    (Called /\ entry = "from_struct") =>
        \A j \in FieldsOf(schema), i \in FieldsOf(other[1].struct) :
            Feeds(other[1].struct, other[1].rec, i, j) =>
                Agrees(j, generate_field_init_quote(schema[j],
                    Some(Serialized(other[1].struct, other[1].rec, i))))

\* C10 amended: ... from the serialized value of the last-declared such
\* field of A.
C10_ConvertedFromLastMatchingField ==
    (Called /\ entry = "from_struct") =>
        \A j \in FieldsOf(schema), i \in FieldsOf(other[1].struct) :
            (/\ Feeds(other[1].struct, other[1].rec, i, j)
             /\ \A l \in FieldsOf(other[1].struct) :
                    l > i => ~Feeds(other[1].struct, other[1].rec, l, j)) =>
                Agrees(j, generate_field_init_quote(schema[j],
                    Some(Serialized(other[1].struct, other[1].rec, i))))

\* B's field looks up the name, not the key, of a field of a different
\* struct A and gets a value that is not B's default
C10_Witness ==
    /\ Called /\ entry = "from_struct" /\ Res.ok
    /\ Len(other[1].struct) # Len(schema)
    /\ \E i \in FieldsOf(other[1].struct) :
        /\ Feeds(other[1].struct, other[1].rec, i, 1)
        /\ DeclaredKey(schema[1]) # DeclaredKey(other[1].struct[i])
        /\ Serialized(other[1].struct, other[1].rec, i) # schema[1].attr.default[1]
        /\ Res.v[1] = generate_field_init_quote(schema[1],
                          Some(Serialized(other[1].struct, other[1].rec, i))).v

\* C11: values of the source mapping are consulted with leading and trailing
\* whitespace trimmed for every kind of source: a record built from a
\* caller-supplied mapping holds, for each field whose key is present, the
\* coercion of the trimmed value.
C11_CallerMapValuesTrimmed ==
    (Called /\ entry = "from") =>
        \A i \in FieldsOf(schema) :
            LET f == schema[i]
                key == DeclaredKey(f)
            IN key \in DOMAIN propmap =>
                Agrees(i, generate_field_init_quote(f, Some(trim(propmap[key]))))

\* ------------------------------------------- properties of a loaded file
Loaded == Called /\ entry = "from_file"

Readable == file[1].open.ok /\ file[1].read.ok

Content == file[1].read.v

Least(S) == CHOOSE i \in S : \A j \in S : i <= j

Greatest(S) == CHOOSE i \in S : \A j \in S : j <= i

\* a line starts at the first character or right after a line feed
LineStarts(c) == {i \in 1..Len(c) : i = 1 \/ c[i - 1] = "\n"}

\* the last character of the line that starts at i (i - 1: the line is empty)
LineEnd(c, i) ==
    CHOOSE j \in (i - 1)..Len(c) :
        /\ \A k \in i..j : c[k] # "\n"
        /\ j = Len(c) \/ c[j + 1] = "\n"

\* the 1-based position of the line that starts at i, every line counted
LineNumber(c, i) == Cardinality({l \in LineStarts(c) : l <= i})

\* the characters i..j of s without leading and trailing whitespace
TrimmedSub(s, i, j) ==
    LET ink == {k \in i..j : ~is_whitespace(s[k])}
    IN IF ink = {} THEN <<>> ELSE SubSeq(s, Least(ink), Greatest(ink))

LineText(c, i) == TrimmedSub(c, i, LineEnd(c, i))

\* neither blank nor a comment
IsDataLine(c, i) == LineText(c, i) # <<>> /\ LineText(c, i)[1] \notin {"#", "!"}

DataLines(c) == {i \in LineStarts(c) : IsDataLine(c, i)}

EqualsAt(t) == {k \in 1..Len(t) : t[k] = "="}

MalformedLines(c) == {i \in DataLines(c) : EqualsAt(LineText(c, i)) = {}}

LineKey(c, i) ==
    LET t == LineText(c, i)
    IN key_string(TrimmedSub(t, 1, Least(EqualsAt(t)) - 1))

LineValue(c, i) ==
    LET t == LineText(c, i)
    IN TrimmedSub(t, Least(EqualsAt(t)) + 1, Len(t))

\* C12 as stated: whichever line of the file lacks '=' (being neither blank
\* nor a comment), loading returns a malformed-line error that cites the path
\* and that line's 1-based position, and no record.
C12_MalformedLineAlwaysCited ==
    (Loaded /\ Readable) =>
        \A i \in MalformedLines(Content) :
            /\ ~Res.ok
            /\ Res.e.kind = "malformed"
            /\ Res.e.path = path
            /\ Res.e.line_num = LineNumber(Content, i)

\* C12: loading a file with a line that is neither blank nor a comment and
\* has no '=' returns a malformed-line error that cites the path and the
\* 1-based position, blank and comment lines counted, of the first such
\* line, and no record.
C12_FirstMalformedLineCited ==
    (Loaded /\ Readable /\ MalformedLines(Content) # {}) =>
        /\ ~Res.ok
        /\ Res.e.kind = "malformed"
        /\ Res.e.path = path
        /\ Res.e.line_num = LineNumber(Content, Least(MalformedLines(Content)))

\* a malformed third line behind a blank line and a comment is cited as
\* line 3
C12_Witness ==
    /\ Loaded /\ Readable
    /\ Content = <<"\n", "#", "\n", "a">>
    /\ ~Res.ok /\ Res.e.kind = "malformed" /\ Res.e.line_num = 3

\* the keys of the data lines of a file, and the last data line of a key
FileKeys(c) == {LineKey(c, i) : i \in DataLines(c)}

LastLineOf(c, k) == Greatest({i \in DataLines(c) : LineKey(c, i) = k})

\* C13: the source mapping built from a well-formed file has exactly one
\* entry per distinct key of its lines that are neither blank nor comments;
\* a line is split at its first '=', key and value are trimmed, and a key
\* on several lines keeps the value of its last line.
C13_SourceMappingOfFile ==
    (Loaded /\ Readable /\ MalformedLines(Content) = {}) =>
        propmap = [k \in FileKeys(Content) |-> LineValue(Content, LastLineOf(Content, k))]

\* a value that keeps its later '='; a key without the whitespace around
\* it; a key whose second line replaces the value of its first
C13_Witness ==
    /\ Loaded /\ Readable
    /\ \/ Content = <<"a", "=", "=", "a">> /\ propmap = Put(EmptyMap, "a", <<"=", "a">>)
       \/ Content = <<" ", "a", " ", "=">> /\ propmap = Put(EmptyMap, "a", <<>>)
       \/ Content = <<"=", "\n", "=", "a">> /\ propmap = Put(EmptyMap, "", <<"a">>)

\* the cause the file system reports for a file that cannot be opened or
\* cannot be read
Cause == IF ~file[1].open.ok THEN file[1].open.e ELSE file[1].read.e

\* C14: loading from a path that cannot be opened or read returns an I/O
\* error that keeps the kind of the underlying cause and names the path,
\* and no record, whatever defaults the struct declares.
C14_IoErrorKeepsKindAndPath ==
    (Loaded /\ ~Readable) =>
        /\ ~Res.ok
        /\ Res.e.kind = "io"
        /\ Res.e.cause = Cause
        /\ Res.e.path = path

\* a file that does not exist, loaded into a struct whose field has a default
C14_Witness ==
    /\ Loaded
    /\ file[1].open = Err("NotFound")
    /\ schema[1].attr.default # None
    /\ ~Res.ok /\ Res.e.cause = "NotFound"

\* C15: the whole file is parsed before any field is resolved: when the
\* file has a malformed line anywhere, the call returns the malformed-line
\* error of the first such line and no field initialiser has run, whether or
\* not the struct's field is missing from, unparsable in, or supplied by
\* the other lines.
C15_MalformedLineBeforeFields ==
    (Loaded /\ Readable /\ MalformedLines(Content) # {}) =>
        LET first == Least(MalformedLines(Content))
        IN Res = [ok |-> FALSE, n |-> 0,
                  e |-> MalformedLine(LineNumber(Content, first), path, LineText(Content, first))]

\* a required numeric field whose key the first line supplies with a value
\* that does not parse, and a malformed second line: the error is the
\* malformed line's
C15_Witness ==
    /\ Loaded /\ Readable
    /\ schema[1].ty = [opt |-> FALSE, vec |-> FALSE, elem |-> "u8"]
    /\ schema[1].attr.default = None
    /\ Content = <<"a", "=", "\n", "a">>
    /\ ~init_field(schema[1], Put(EmptyMap, "a", <<>>)).ok
    /\ ~Res.ok /\ Res.e.kind = "malformed" /\ Res.e.line_num = 2

\* what the empty string coerces to, by the field's type
EmptyCoerced(f) ==
    IF f.ty.vec \/ f.ty.elem = "String"
    THEN Ok(IF f.ty.opt THEN Some(<<>>) ELSE <<>>)
    ELSE Err(ParseError(DeclaredKey(f), <<>>))

\* C16: a key the file gives an empty value (a line `key=`) is present: the
\* field is initialised from the empty string, not from its default and
\* not as missing; a String field is "", a sequence field is empty, an
\* optional one of these is a present option, and a numeric scalar field
\* (optional or not) is a parse failure.
C16_EmptyValueIsPresent ==
    Loaded =>
        \A i \in FieldsOf(schema) :
            LET f == schema[i]
                key == DeclaredKey(f)
            IN (key \in DOMAIN propmap /\ propmap[key] = <<>>) =>
                Agrees(i, EmptyCoerced(f))

\* the line `a=` loaded into a String field with a default: the field is ""
C16_Witness ==
    /\ Loaded /\ Readable
    /\ Content = <<"a", "=">>
    /\ schema[1].ty = [opt |-> FALSE, vec |-> FALSE, elem |-> "String"]
    /\ schema[1].attr.default = Some(<<"1">>)
    /\ Res.ok /\ Res.v[1] = <<>>

\* -------------------------------------------- properties of the export
\* the record handed to the last Target::from(record), and its struct
Exported == Called /\ entry = "from_struct"

\* the strings a struct's fields are exported under
Aliases(struct) ==
    {struct[i].name : i \in FieldsOf(struct)} \cup {DeclaredKey(struct[i]) : i \in FieldsOf(struct)}

\* the fields that write an entry under the alias s
Writers(struct, rec, s) ==
    {i \in FieldsOf(struct) :
        /\ struct[i].name = s \/ DeclaredKey(struct[i]) = s
        /\ ~Absent(struct, rec, i)}

\* two different fields have a name or key in common
Collides(struct) ==
    \E i, j \in FieldsOf(struct) :
        /\ i # j
        /\ {struct[i].name, DeclaredKey(struct[i])} \cap {struct[j].name, DeclaredKey(struct[j])} # {}

\* C17: the export writes the fields in declaration order and a write
\* replaces the entry that is there: an alias holds the serialized value of
\* the last-declared field, among those that are not absent options, whose
\* name or key it is, and a struct in which two fields have a name or key in
\* common exports fewer than two entries per field.
C17_ExportLastWriterWins ==
    Exported =>
        LET A == other[1].struct
            rec == other[1].rec
        IN /\ DOMAIN propmap = {s \in Aliases(A) : Writers(A, rec, s) # {}}
           /\ \A s \in DOMAIN propmap :
                propmap[s] = Serialized(A, rec, Greatest(Writers(A, rec, s)))
           /\ Collides(A) => Cardinality(DOMAIN propmap) < 2 * Len(A)

\* fields a and b, each with the other's name as its key and different
\* values: both entries hold b's value, and a's is under neither
C17_Witness ==
    /\ Exported
    /\ Len(other[1].struct) = 2
    /\ DeclaredKey(other[1].struct[1]) = other[1].struct[2].name
    /\ DeclaredKey(other[1].struct[2]) = other[1].struct[1].name
    /\ ~Absent(other[1].struct, other[1].rec, 1)
    /\ ~Absent(other[1].struct, other[1].rec, 2)
    /\ Serialized(other[1].struct, other[1].rec, 1) # Serialized(other[1].struct, other[1].rec, 2)
    /\ \A s \in DOMAIN propmap : propmap[s] = Serialized(other[1].struct, other[1].rec, 2)
    /\ Cardinality(DOMAIN propmap) = 2

====
